---------------------------- MODULE Spec2Model ----------------------------
(***************************************************************************)
(* Active-set QP solver of gtsam_unstable/linear/QPSolver.cpp.             *)
(*                                                                         *)
(* A double is modelled as an exact rational <<n, d>> (d > 0, lowest       *)
(* terms), so the arithmetic of the solver is exact and the tolerances     *)
(* 1e-7 of the code are the rationals they denote.  The linear solver      *)
(* (GaussianFactorGraph::optimize) is modelled for a diagonal quadratic    *)
(* cost  sum_k h[k]/2 * (x[k] - c[k])^2  over one or two scalar keys.      *)
(***************************************************************************)
EXTENDS Integers, Sequences, FiniteSets, TLC

(***************************************************************************)
(* Exact rational arithmetic standing for double arithmetic.               *)
(***************************************************************************)
IAbs(i) == IF i < 0 THEN -i ELSE i

RECURSIVE Gcd(_, _)
Gcd(a, b) == IF b = 0 THEN a ELSE Gcd(b, a % b)

Norm(n, d) ==
  LET s == IF d < 0 THEN -1 ELSE 1
      g == Gcd(IAbs(n), IAbs(d))
  IN  IF n = 0 THEN <<0, 1>> ELSE <<s * (n \div g), s * (d \div g)>>

Zero == <<0, 1>>
One == <<1, 1>>
RInt(i) == <<i, 1>>

RNeg(x) == <<-x[1], x[2]>>

\* x + y over the least common denominator
RAdd(x, y) ==
  LET g == Gcd(x[2], y[2])
      l == (x[2] \div g) * y[2]
  IN  Norm(x[1] * (l \div x[2]) + y[1] * (l \div y[2]), l)

RSub(x, y) == RAdd(x, RNeg(y))

\* x * y, cross-reduced before multiplying
RMul(x, y) ==
  LET g1 == Gcd(IAbs(x[1]), y[2])
      g2 == Gcd(IAbs(y[1]), x[2])
  IN  IF x[1] = 0 \/ y[1] = 0 THEN Zero
      ELSE Norm((x[1] \div g1) * (y[1] \div g2), (x[2] \div g2) * (y[2] \div g1))

\* x / y for y # 0
RDiv(x, y) == RMul(x, IF y[1] < 0 THEN <<-y[2], -y[1]>> ELSE <<y[2], y[1]>>)

RSign(x) == IF x[1] > 0 THEN 1 ELSE IF x[1] < 0 THEN -1 ELSE 0
RLess(x, y) == RSign(RSub(x, y)) < 0
RLeq(x, y) == RSign(RSub(x, y)) <= 0
RAbs(x) == <<IAbs(x[1]), x[2]>>   \* fabs

(***************************************************************************)
(* Vectors (VectorValues over scalar keys 1..n) and the QP problem.        *)
(*   qp == [n, h, c, equalities, inequalities]                             *)
(*   a constraint row is [a |-> vector, b |-> bound]:  a.x <= b  (= b for  *)
(*   an equality or an active inequality); a zero coefficient means the    *)
(*   factor does not involve that key.                                     *)
(***************************************************************************)
RECURSIVE DotUpTo(_, _, _)
DotUpTo(a, v, k) == IF k = 0 THEN Zero ELSE RAdd(DotUpTo(a, v, k - 1), RMul(a[k], v[k]))

\* LinearInequality::dotProductRow
dotProductRow(a, v) == DotUpTo(a, v, Len(a))

VAdd(u, v) == [k \in DOMAIN u |-> RAdd(u[k], v[k])]
VSub(u, v) == [k \in DOMAIN u |-> RSub(u[k], v[k])]
VScale(s, v) == [k \in DOMAIN v |-> RMul(s, v[k])]

\* VectorValues::equals(other, tol): every component differs by at most tol
VEquals(u, v, tol) == \A k \in DOMAIN u : RLeq(RAbs(RSub(u[k], v[k])), tol)

\* mutant: the tolerance is 1e-8
Tol7_narrow == <<1, 100000000>>

\* the tolerance 1e-7 of iterate and of identifyActiveConstraints
Tol7 == <<1, 10000000>>

\* LinearInequality::error: a.x - b
error(row, v) == RSub(dotProductRow(row.a, v), row.b)

\* GaussianFactor::gradient(key, x) of the cost factor on key k
gradient(q, k, v) == RMul(q.h[k], RSub(v[k], q.c[k]))

RECURSIVE CommonDenUpTo(_, _)
CommonDenUpTo(v, k) ==
  IF k = 0 THEN 1
  ELSE LET l == CommonDenUpTo(v, k - 1)
       IN  (l \div Gcd(l, v[k][2])) * v[k][2]

\* the integer vector v * (common denominator of v): a positive multiple of v
Scaled(v) ==
  LET l == CommonDenUpTo(v, Len(v))
  IN  [k \in DOMAIN v |-> v[k][1] * (l \div v[k][2])]

RECURSIVE CostDiffUpTo(_, _, _, _)
CostDiffUpTo(hI, dI, sI, k) ==
  IF k = 0 THEN 0 ELSE CostDiffUpTo(hI, dI, sI, k - 1) + hI[k] * dI[k] * sI[k]

\* the sign of cost(vNew) - cost(vOld) for the quadratic cost
\*   cost(x) = sum_k h[k]/2 * (x[k] - c[k])^2,
\* that is of  sum_k h[k] * (vNew[k] - vOld[k]) * (vNew[k] + vOld[k] - 2 c[k]),
\* computed on positive integer multiples of the three factors
CostChange(q, vOld, vNew) ==
  LET d == VSub(vNew, vOld)
      s == [k \in 1..q.n |-> RSub(RAdd(vNew[k], vOld[k]), RMul(RInt(2), q.c[k]))]
      t == CostDiffUpTo(Scaled(q.h), Scaled(d), Scaled(s), q.n)
  IN  IF t > 0 THEN 1 ELSE IF t < 0 THEN -1 ELSE 0

(***************************************************************************)
(* Dual keys: one per equality and one per inequality, stable over copies. *)
(***************************************************************************)
dualKeyE(j) == <<"E", j>>
dualKey(i) == <<"I", i>>

(***************************************************************************)
(* The working set is a sequence of references to LinearInequality         *)
(* objects; flags[f] is the active flag of object f.  Object i of          *)
(* 1..Len(qp.inequalities) is the problem's own factor i.                  *)
(***************************************************************************)
activeIn(ws, flags, i) == flags[ws[i]]

RECURSIVE ActiveIxUpTo(_, _, _)
ActiveIxUpTo(ws, flags, i) ==
  IF i = 0 THEN << >>
  ELSE IF activeIn(ws, flags, i) THEN Append(ActiveIxUpTo(ws, flags, i - 1), i)
       ELSE ActiveIxUpTo(ws, flags, i - 1)

\* indices (1-based) of the active factors of a working set, in order
ActiveIx(ws, flags) == ActiveIxUpTo(ws, flags, Len(ws))

\* the rows of baseGraph_'s equalities followed by the active inequalities
WorkingRows(q, ws, flags) ==
  LET ix == ActiveIx(ws, flags)
  IN  q.equalities \o [j \in 1..Len(ix) |-> q.inequalities[ix[j]]]

Det2(r1, r2) == RSub(RMul(r1.a[1], r2.a[2]), RMul(r1.a[2], r2.a[1]))

\* the constraint rows are linearly independent
Independent(q, rows) ==
  CASE Len(rows) = 0 -> TRUE
    [] Len(rows) = 1 -> \E k \in 1..q.n : rows[1].a[k] # Zero
    [] Len(rows) = 2 -> q.n = 2 /\ Det2(rows[1], rows[2]) # Zero
    [] OTHER -> FALSE

\* GaussianFactorGraph::optimize of cost + constraint rows: the minimiser of
\* the cost subject to every row holding with equality
GraphOptimize(q, rows) ==
  CASE Len(rows) = 0 -> q.c
    [] Len(rows) = 1 ->
         LET a == rows[1].a
             w == [k \in 1..q.n |-> RDiv(a[k], q.h[k])]
             t == RDiv(RSub(dotProductRow(a, q.c), rows[1].b), dotProductRow(a, w))
         IN  [k \in 1..q.n |-> RSub(q.c[k], RMul(w[k], t))]
    [] OTHER ->
         LET r1 == rows[1]
             r2 == rows[2]
             d == Det2(r1, r2)
         IN  << RDiv(RSub(RMul(r1.b, r2.a[2]), RMul(r1.a[2], r2.b)), d),
                RDiv(RSub(RMul(r1.a[1], r2.b), RMul(r1.b, r2.a[1])), d) >>

solveWithCurrentWorkingSet(q, ws, flags) == GraphOptimize(q, WorkingRows(q, ws, flags))


(***************************************************************************)
(* Dual graph.  A dual factor is [terms, b]: the least-squares row         *)
(*   sum over <<dk, coef>> in terms of coef * lambda[dk]  =  b.            *)
(***************************************************************************)
RECURSIVE EqTermsUpTo(_, _, _)
EqTermsUpTo(q, key, j) ==
  IF j = 0 THEN << >>
  ELSE IF q.equalities[j].a[key] # Zero
       THEN Append(EqTermsUpTo(q, key, j - 1), <<dualKeyE(j), q.equalities[j].a[key]>>)
       ELSE EqTermsUpTo(q, key, j - 1)

RECURSIVE IneqTermsUpTo(_, _, _, _, _)
IneqTermsUpTo(q, key, ws, flags, i) ==
  IF i = 0 THEN << >>
  ELSE IF q.inequalities[i].a[key] # Zero /\ activeIn(ws, flags, i)
       THEN Append(IneqTermsUpTo(q, key, ws, flags, i - 1),
                   <<dualKey(i), q.inequalities[i].a[key]>>)
       ELSE IneqTermsUpTo(q, key, ws, flags, i - 1)

\* collectDualJacobians: the transposed Jacobians on `key` of the equalities
\* and of the active factors of the working set, each with its dual key
collectDualJacobians(q, key, ws, flags) ==
  EqTermsUpTo(q, key, Len(q.equalities)) \o IneqTermsUpTo(q, key, ws, flags, Len(ws))

EmptyFactor == [terms |-> << >>, b |-> Zero]

\* mutant: the gradient enters the right-hand side with the opposite sign
createDualFactor_negGradient(q, key, ws, flags, delta) ==
  LET Aterms == collectDualJacobians(q, key, ws, flags)
  IN  IF Len(Aterms) > 0
      THEN [terms |-> Aterms, b |-> RNeg(gradient(q, key, delta))]
      ELSE EmptyFactor

createDualFactor(q, key, ws, flags, delta) ==
  LET Aterms == collectDualJacobians(q, key, ws, flags)
  IN  IF Len(Aterms) > 0
      THEN [terms |-> Aterms, b |-> gradient(q, key, delta)]
      ELSE EmptyFactor

\* keys of the equalities and of the inequalities (active or not)
constrainedKeys(q) ==
  {k \in 1..q.n : \/ \E j \in 1..Len(q.equalities) : q.equalities[j].a[k] # Zero
                  \/ \E i \in 1..Len(q.inequalities) : q.inequalities[i].a[k] # Zero}

RECURSIVE DualGraphUpTo(_, _, _, _, _)
DualGraphUpTo(q, ws, flags, delta, k) ==
  IF k = 0 THEN << >>
  ELSE LET dualFactor == createDualFactor(q, k, ws, flags, delta)
       IN  IF k \in constrainedKeys(q) /\ dualFactor # EmptyFactor
           THEN Append(DualGraphUpTo(q, ws, flags, delta, k - 1), dualFactor)
           ELSE DualGraphUpTo(q, ws, flags, delta, k - 1)

buildDualGraph(q, ws, flags, delta) == DualGraphUpTo(q, ws, flags, delta, q.n)

FactorKeys(f) == {f.terms[t][1] : t \in 1..Len(f.terms)}

Coef(f, dk) ==
  IF dk \in FactorKeys(f)
  THEN (f.terms[CHOOSE t \in 1..Len(f.terms) : f.terms[t][1] = dk])[2]
  ELSE Zero

RECURSIVE SumFactors(_, _, _, _)
SumFactors(graph, dk, square, j) ==
  IF j = 0 THEN Zero
  ELSE RAdd(SumFactors(graph, dk, square, j - 1),
            RMul(Coef(graph[j], dk), IF square THEN Coef(graph[j], dk) ELSE graph[j].b))

\* dualGraph->optimize(): the least-squares solution of the dual rows
\* (one or two independent unknowns)
DualOptimize(graph) ==
  LET U == UNION {FactorKeys(graph[j]) : j \in 1..Len(graph)}
  IN  IF U = {} THEN << >>
      ELSE IF Cardinality(U) = 1
      THEN [dk \in U |-> RDiv(SumFactors(graph, dk, FALSE, Len(graph)),
                              SumFactors(graph, dk, TRUE, Len(graph)))]
      ELSE LET u1 == CHOOSE u \in U : TRUE
               u2 == CHOOSE u \in U \ {u1} : TRUE
               c11 == Coef(graph[1], u1)
               c12 == Coef(graph[1], u2)
               c21 == Coef(graph[2], u1)
               c22 == Coef(graph[2], u2)
               d == RSub(RMul(c11, c22), RMul(c12, c21))
               l1 == RDiv(RSub(RMul(graph[1].b, c22), RMul(c12, graph[2].b)), d)
               l2 == RDiv(RSub(RMul(c11, graph[2].b), RMul(graph[1].b, c21)), d)
           IN  [dk \in U |-> IF dk = u1 THEN l1 ELSE l2]

(***************************************************************************)
(* identifyLeavingConstraint: factor indices are 0-based, -1 is "none".    *)
(***************************************************************************)
RECURSIVE LeavingLoop(_, _, _, _, _, _)
LeavingLoop(ws, flags, lambdas, factorIx, worstFactorIx, maxLambda) ==
  IF factorIx >= Len(ws) THEN worstFactorIx
  ELSE IF activeIn(ws, flags, factorIx + 1)
          /\ RLess(maxLambda, lambdas[dualKey(factorIx + 1)])
       THEN LeavingLoop(ws, flags, lambdas, factorIx + 1, factorIx,
                        lambdas[dualKey(factorIx + 1)])
       ELSE LeavingLoop(ws, flags, lambdas, factorIx + 1, worstFactorIx, maxLambda)

\* mutant: no constraint ever leaves
identifyLeavingConstraint_none(ws, flags, lambdas) == -1

\* mutant: among equal largest multipliers the highest index is returned
identifyLeavingConstraint_lastTie(ws, flags, lambdas) ==
  LET Pos == {i \in 1..Len(ws) : activeIn(ws, flags, i) /\ RLess(Zero, lambdas[dualKey(i)])}
  IN  IF Pos = {} THEN -1
      ELSE (CHOOSE i \in Pos :
              \A j \in Pos : \/ RLess(lambdas[dualKey(j)], lambdas[dualKey(i)])
                             \/ lambdas[dualKey(j)] = lambdas[dualKey(i)] /\ j <= i) - 1

identifyLeavingConstraint(ws, flags, lambdas) ==
  LeavingLoop(ws, flags, lambdas, 0, -1, Zero)

(***************************************************************************)
(* computeStepSize: <<minAlpha, closestFactorIx>>.                         *)
(***************************************************************************)
RECURSIVE StepLoop(_, _, _, _, _, _, _, _)
StepLoop(q, ws, flags, xk, p, factorIx, minAlpha, closestFactorIx) ==
  IF factorIx >= Len(ws) THEN <<minAlpha, closestFactorIx>>
  ELSE LET factor == q.inequalities[factorIx + 1]
           aTp == dotProductRow(factor.a, p)
           aTx == dotProductRow(factor.a, xk)
           alpha == RDiv(RSub(factor.b, aTx), aTp)
       IN  IF ~activeIn(ws, flags, factorIx + 1) /\ RLess(Zero, aTp)
              /\ RLess(alpha, minAlpha)
           THEN StepLoop(q, ws, flags, xk, p, factorIx + 1, alpha, factorIx)
           ELSE StepLoop(q, ws, flags, xk, p, factorIx + 1, minAlpha, closestFactorIx)

\* mutant: the ratio test never lets the point move
computeStepSize_stuck(q, ws, flags, xk, p) == <<Zero, -1>>

\* mutant: the ratio test is skipped and the full step is always taken
computeStepSize_full(q, ws, flags, xk, p) == <<One, -1>>

RECURSIVE StepLoopAnySign(_, _, _, _, _, _, _, _)
StepLoopAnySign(q, ws, flags, xk, p, factorIx, minAlpha, closestFactorIx) ==
  IF factorIx >= Len(ws) THEN <<minAlpha, closestFactorIx>>
  ELSE LET factor == q.inequalities[factorIx + 1]
           aTp == dotProductRow(factor.a, p)
           aTx == dotProductRow(factor.a, xk)
           alpha == RDiv(RSub(factor.b, aTx), aTp)
       IN  IF ~activeIn(ws, flags, factorIx + 1) /\ aTp # Zero
              /\ RLess(alpha, minAlpha)
           THEN StepLoopAnySign(q, ws, flags, xk, p, factorIx + 1, alpha, factorIx)
           ELSE StepLoopAnySign(q, ws, flags, xk, p, factorIx + 1, minAlpha,
                                closestFactorIx)

\* mutant: constraints the direction moves away from (a.p < 0) take part in
\* the ratio test
computeStepSize_anySign(q, ws, flags, xk, p) ==
  StepLoopAnySign(q, ws, flags, xk, p, 0, One, -1)

computeStepSize(q, ws, flags, xk, p) == StepLoop(q, ws, flags, xk, p, 0, One, -1)


\* mutant: the step is subtracted
stepTo_minus(values, alpha, p) == VSub(values, VScale(alpha, p))

\* mutant: the full step is taken whatever the ratio test returned
stepTo_full(values, alpha, p) == VAdd(values, p)

\* newValues = state.values + alpha * p
stepTo(values, alpha, p) == VAdd(values, VScale(alpha, p))

(***************************************************************************)
(* iterate: one step on a QPState                                          *)
(*   [values, duals, workingSet, converged, iterations].                   *)
(* The result carries the new state, the flags of the factor objects       *)
(* after the call, and what the call did (branch, alpha, factorIx).        *)
(***************************************************************************)
iterate(q, st, flags) ==
  LET newValues == solveWithCurrentWorkingSet(q, st.workingSet, flags)
  IN  IF VEquals(newValues, st.values, Tol7)
      THEN LET dualGraph == buildDualGraph(q, st.workingSet, flags, newValues)
               duals == DualOptimize(dualGraph)
               leavingFactor == identifyLeavingConstraint(st.workingSet, flags, duals)
           IN  IF leavingFactor < 0
               THEN [state |-> [values |-> newValues, duals |-> duals,
                                workingSet |-> st.workingSet, converged |-> TRUE,
                                iterations |-> st.iterations + 1],
                     flags |-> flags,
                     did |-> [branch |-> "converged", alpha |-> Zero, factorIx |-> -1]]
               ELSE [state |-> [values |-> newValues, duals |-> duals,
                                workingSet |-> st.workingSet, converged |-> FALSE,
                                iterations |-> st.iterations + 1],
                     flags |-> [flags EXCEPT ![st.workingSet[leavingFactor + 1]] = FALSE],
                     did |-> [branch |-> "leave", alpha |-> Zero,
                              factorIx |-> leavingFactor]]
      ELSE LET p == VSub(newValues, st.values)
               step == computeStepSize(q, st.workingSet, flags, st.values, p)
               alpha == step[1]
               factorIx == step[2]
           IN  [state |-> [values |-> stepTo(st.values, alpha, p),
                           duals |-> st.duals,
                           workingSet |-> st.workingSet, converged |-> FALSE,
                           iterations |-> st.iterations + 1],
                flags |-> IF factorIx >= 0
                          THEN [flags EXCEPT ![st.workingSet[factorIx + 1]] = TRUE]
                          ELSE flags,
                did |-> [branch |-> "step", alpha |-> alpha, factorIx |-> factorIx]]

(***************************************************************************)
(* identifyActiveConstraints: how factor i of the inequalities is          *)
(* classified: "active", "inactive" or "throw" (InfeasibleInitialValues).  *)
(***************************************************************************)
\* mutant: warm start is ignored, every constraint is classified by its
\* violation
Classify_ignoreDuals(q, i, initialValues, duals, useWarmStart) ==
  IF RLess(Zero, error(q.inequalities[i], initialValues)) THEN "throw"
  ELSE IF RLess(RAbs(error(q.inequalities[i], initialValues)), Tol7) THEN "active"
  ELSE "inactive"

\* mutant: a violation is raised only beyond the tolerance
Classify_throwBeyondTol(q, i, initialValues, duals, useWarmStart) ==
  IF useWarmStart /\ dualKey(i) \in DOMAIN duals THEN "active"
  ELSE IF useWarmStart /\ Cardinality(DOMAIN duals) > 0 THEN "inactive"
  ELSE IF RLess(RAbs(error(q.inequalities[i], initialValues)), Tol7) THEN "active"
  ELSE IF RLess(Zero, error(q.inequalities[i], initialValues)) THEN "throw"
  ELSE "inactive"

\* mutant: the fabs(error) < 1e-7 test is missing, every feasible constraint
\* is activated
Classify_noTol(q, i, initialValues, duals, useWarmStart) ==
  IF useWarmStart /\ dualKey(i) \in DOMAIN duals THEN "active"
  ELSE IF useWarmStart /\ Cardinality(DOMAIN duals) > 0 THEN "inactive"
  ELSE IF RLess(Zero, error(q.inequalities[i], initialValues)) THEN "throw"
  ELSE "active"

Classify(q, i, initialValues, duals, useWarmStart) ==
  IF useWarmStart /\ dualKey(i) \in DOMAIN duals THEN "active"
  ELSE IF useWarmStart /\ Cardinality(DOMAIN duals) > 0 THEN "inactive"
  ELSE LET err == error(q.inequalities[i], initialValues)
       IN  IF RLess(Zero, err) THEN "throw"
           ELSE IF RLess(RAbs(err), Tol7) THEN "active"
           ELSE "inactive"

\* the call raises InfeasibleInitialValues
identifyThrows(q, initialValues, duals, useWarmStart) ==
  \E i \in 1..Len(q.inequalities) :
     Classify(q, i, initialValues, duals, useWarmStart) = "throw"

\* the flags of the freshly copied factors, in index order
identifyActiveConstraints(q, initialValues, duals, useWarmStart) ==
  [i \in 1..Len(q.inequalities) |->
     Classify(q, i, initialValues, duals, useWarmStart) = "active"]


(***************************************************************************)
(* Bounds of the model and the inputs it draws.                            *)
(***************************************************************************)
MaxIneq == 2      \* at most this many inequality constraints
MaxIter == 8      \* iterate calls explored per optimize call
MaxCalls == 2     \* optimize calls per solver (the second is a warm restart)

\* problem data are grid multiples of a scale: 2.5 (data of order 1..10) or
\* 2.5e-8 (data of the order of the 1e-7 tolerance)
Scales == {<<5, 2>>, <<1, 40000000>>}
G(s, g) == RMul(s, RInt(g))

Dims == {1, 2}
X0Grid(n) == IF n = 1 THEN {0, 1, 2} ELSE {0, 2}
CGrid(n) == IF n = 1 THEN {0, 3, 4} ELSE {0, 3}
EqPool(n) == IF n = 1 THEN {<< >>} ELSE {<< >>, << [a |-> <<One, RNeg(One)>>, b |-> Zero] >>}

\* candidate constraint rows <<a, bound grid value>>
RowPool(n) ==
  IF n = 1 THEN {<<<<1>>, 0>>, <<<<1>>, 2>>, <<<<1>>, 4>>, <<<<-1>>, 0>>, <<<<-1>>, -2>>}
  ELSE {<<<<1, 0>>, 2>>, <<<<0, 1>>, 2>>, <<<<1, 1>>, 2>>, <<<<1, 1>>, 4>>}

Rows(n, s) == {[a |-> [k \in 1..n |-> RInt(r[1][k])], b |-> G(s, r[2])] : r \in RowPool(n)}

SeqsUpTo(S, m) == UNION {[1..k -> S] : k \in 0..m}

\* the problems of dimension n with data at scale s
Problems(n, s) ==
  {[n |-> n, h |-> [k \in 1..n |-> One], c |-> [k \in 1..n |-> G(s, cg[k])],
    equalities |-> eqs, inequalities |-> ineqs] :
      cg \in [1..n -> CGrid(n)], eqs \in EqPool(n), ineqs \in SeqsUpTo(Rows(n, s), MaxIneq)}

StartPoints(n, s) == {[k \in 1..n |-> G(s, g[k])] : g \in [1..n -> X0Grid(n)]}

AllDualKeys(q) == {dualKey(i) : i \in 1..Len(q.inequalities)}
                  \cup {dualKeyE(j) : j \in 1..Len(q.equalities)}

\* the value of every caller-supplied prior dual
PriorLambda == <<7, 1>>

PriorDuals(q) == {[dk \in D |-> PriorLambda] : D \in SUBSET AllDualKeys(q)}

VARIABLES qp, initialValues, initialDuals, useWarmStart, pc, state, flags, last, results,
          calls

vars == <<qp, initialValues, initialDuals, useWarmStart, pc, state, flags, last, results,
          calls>>

NoStep == [branch |-> "none", alpha |-> Zero, factorIx |-> -1]

Init ==
  /\ \E n \in Dims, s \in Scales :
        /\ qp \in Problems(n, s)
        /\ initialValues \in StartPoints(n, s)
  /\ useWarmStart \in BOOLEAN
  /\ initialDuals \in IF useWarmStart THEN PriorDuals(qp) ELSE {<< >>}
  /\ pc = "call"
  /\ state = [values |-> initialValues, duals |-> initialDuals, workingSet |-> << >>,
              converged |-> FALSE, iterations |-> 0]
  /\ flags = [i \in 1..Len(qp.inequalities) |-> TRUE]
  /\ last = [did |-> NoStep, from |-> state, fromFlags |-> flags]
  /\ results = << >>
  /\ calls = 1

\* mutant: the working set holds the problem's own factors, not copies
Optimize_aliased ==
  /\ pc = "call"
  /\ \/ /\ identifyThrows(qp, initialValues, initialDuals, useWarmStart)
        /\ pc' = "InfeasibleInitialValues"
        /\ UNCHANGED <<state, flags, last>>
     \/ /\ ~identifyThrows(qp, initialValues, initialDuals, useWarmStart)
        /\ flags' = identifyActiveConstraints(qp, initialValues, initialDuals, useWarmStart)
        /\ state' = [values |-> initialValues, duals |-> initialDuals,
                     workingSet |-> [i \in 1..Len(qp.inequalities) |-> i],
                     converged |-> FALSE, iterations |-> 0]
        /\ last' = [did |-> NoStep, from |-> state', fromFlags |-> flags']
        /\ pc' = "loop"
  /\ UNCHANGED <<qp, initialValues, initialDuals, useWarmStart, results, calls>>

\* optimize, up to the first test of the loop condition
Optimize ==
  /\ pc = "call"
  /\ \/ /\ identifyThrows(qp, initialValues, initialDuals, useWarmStart)
        /\ pc' = "InfeasibleInitialValues"
        /\ UNCHANGED <<state, flags, last>>
     \/ /\ ~identifyThrows(qp, initialValues, initialDuals, useWarmStart)
        /\ flags' = flags \o identifyActiveConstraints(qp, initialValues, initialDuals,
                                                       useWarmStart)
        /\ state' = [values |-> initialValues, duals |-> initialDuals,
                     workingSet |-> [i \in 1..Len(qp.inequalities) |-> Len(flags) + i],
                     converged |-> FALSE, iterations |-> 0]
        /\ last' = [did |-> NoStep, from |-> state', fromFlags |-> flags']
        /\ pc' = "loop"
  /\ UNCHANGED <<qp, initialValues, initialDuals, useWarmStart, results, calls>>

\* one pass of the loop body: state = iterate(state)
Iterate ==
  /\ pc = "loop"
  /\ ~state.converged
  /\ state.iterations < MaxIter
  /\ \/ /\ Independent(qp, WorkingRows(qp, state.workingSet, flags))
        /\ LET r == iterate(qp, state, flags)
           IN  /\ state' = r.state
               /\ flags' = r.flags
               /\ last' = [did |-> r.did, from |-> state, fromFlags |-> flags]
        /\ pc' = pc
     \/ /\ ~Independent(qp, WorkingRows(qp, state.workingSet, flags))
        /\ pc' = "IndeterminantLinearSystem"
        /\ UNCHANGED <<state, flags, last>>
  /\ UNCHANGED <<qp, initialValues, initialDuals, useWarmStart, results, calls>>

\* mutant: the loop is left whether or not the state has converged
Return_notConverged ==
  /\ pc = "loop"
  /\ state.iterations > 0
  /\ results' = Append(results, [values |-> state.values, duals |-> state.duals])
  /\ pc' = "done"
  /\ UNCHANGED <<qp, initialValues, initialDuals, useWarmStart, state, flags, last, calls>>

\* the loop ends: return make_pair(state.values, state.duals)
Return ==
  /\ pc = "loop"
  /\ state.converged
  /\ results' = Append(results, [values |-> state.values, duals |-> state.duals])
  /\ pc' = "done"
  /\ UNCHANGED <<qp, initialValues, initialDuals, useWarmStart, state, flags, last, calls>>

\* the caller solves again from the returned pair, with warm start
Reoptimize ==
  /\ pc = "done"
  /\ calls < MaxCalls
  /\ calls' = calls + 1
  /\ initialValues' = results[Len(results)].values
  /\ initialDuals' = results[Len(results)].duals
  /\ useWarmStart' = TRUE
  /\ pc' = "call"
  /\ UNCHANGED <<qp, state, flags, last, results>>

Next == Optimize \/ Iterate \/ Return \/ Reoptimize

Spec == Init /\ [][Next]_vars

(***************************************************************************)
(* Predicates shared by the properties below.                              *)
(***************************************************************************)
NumIneq == Len(qp.inequalities)

\* `state` is a QPState of the current optimize call
InRun == pc \in {"loop", "done", "IndeterminantLinearSystem"}

\* the current call classifies the constraints by their violation
ColdStart == ~useWarmStart \/ Cardinality(DOMAIN initialDuals) = 0

\* |v| <= 1/T, without forming v - 1/T
Within(v, T) == IAbs(v[1]) <= v[2] \div T

\* a.x <= b for every inequality constraint
Feasible(v) == \A i \in 1..NumIneq : RLeq(error(qp.inequalities[i], v), Zero)

\* a.x <= b + 1e-9 for every inequality constraint
FeasibleTol9(v) ==
  \A i \in 1..NumIneq :
     \/ RLeq(error(qp.inequalities[i], v), Zero)
     \/ Within(error(qp.inequalities[i], v), 1000000000)

\* every equality and every active inequality holds with equality at st.values
ActiveExact(st, fl) ==
  /\ \A i \in 1..NumIneq :
        activeIn(st.workingSet, fl, i) => error(qp.inequalities[i], st.values) = Zero
  /\ \A j \in 1..Len(qp.equalities) : error(qp.equalities[j], st.values) = Zero

\* the step an Iterate transition takes is one iterate call
IterateStep == pc = "loop" /\ pc' = "loop" /\ state'.iterations = state.iterations + 1

(***************************************************************************)
(* C1: in every QPState produced by optimize, the initial state and the    *)
(* result of every iterate call, values satisfies every inequality         *)
(* constraint, active or inactive: a.x <= b (+ 1e-9).  Stated for the      *)
(* cold-start calls, whose starting point optimize has checked feasible.   *)
(***************************************************************************)
C1_AlwaysFeasible ==
  InRun /\ ColdStart => FeasibleTol9(state.values)

(***************************************************************************)
(* C2 (as stated): in every QPState reached by optimize, cold or warm      *)
(* start, every inequality flagged active holds with equality at values    *)
(* within 1e-9.                                                            *)
(***************************************************************************)
C2_Original ==
  InRun => \A i \in 1..NumIneq :
              activeIn(state.workingSet, flags, i)
                 => Within(error(qp.inequalities[i], state.values), 1000000000)

(***************************************************************************)
(* C2 (amended): in every QPState of a cold-start call, every inequality   *)
(* flagged active holds with equality at values within the activation      *)
(* tolerance: |a.x - b| < 1e-7.                                            *)
(***************************************************************************)
C2_ActiveWithinTol7 ==
  InRun /\ ColdStart =>
     \A i \in 1..NumIneq :
        activeIn(state.workingSet, flags, i)
           => RLess(RAbs(error(qp.inequalities[i], state.values)), Tol7)

\* a cold start that activated a constraint which is off its bound by less
\* than 1e-7 but not by zero
C2_Witness ==
  /\ pc = "loop" /\ ColdStart /\ state.iterations = 0
  /\ \E i \in 1..NumIneq :
        /\ activeIn(state.workingSet, flags, i)
        /\ error(qp.inequalities[i], state.values) # Zero

(***************************************************************************)
(* C3: at every state with converged = true, the multiplier (the dual at   *)
(* its dual key) of every active inequality constraint is <= 0.            *)
(***************************************************************************)
C3_ConvergedDualSign ==
  InRun /\ state.converged =>
     \A i \in 1..NumIneq :
        activeIn(state.workingSet, flags, i) => RLeq(state.duals[dualKey(i)], Zero)

\* a converged state with an active constraint of strictly negative
\* multiplier beside an inactive constraint
C3_Witness ==
  /\ InRun /\ state.converged
  /\ \E i \in 1..NumIneq :
        activeIn(state.workingSet, flags, i) /\ RLess(state.duals[dualKey(i)], Zero)
  /\ \E i \in 1..NumIneq : ~activeIn(state.workingSet, flags, i)

(***************************************************************************)
(* C4 (as stated): for consecutive states s, s' = iterate(s) of a run of   *)
(* optimize, cost(s'.values) <= cost(s.values).                            *)
(***************************************************************************)
C4_Original ==
  [][IterateStep => CostChange(qp, state.values, state'.values) <= 0]_vars

(***************************************************************************)
(* C4 (amended): for consecutive states s, s' = iterate(s) where s.values  *)
(* holds every equality and every active inequality with equality and     *)
(* satisfies every inequality, cost(s'.values) <= cost(s.values).          *)
(***************************************************************************)
C4_CostNonIncreasing ==
  [][IterateStep /\ ActiveExact(state, flags) /\ Feasible(state.values)
       => CostChange(qp, state.values, state'.values) <= 0]_vars

\* an iterate call from such a state that strictly lowered the cost
C4_Witness ==
  /\ pc = "loop" /\ state.iterations > 0
  /\ ActiveExact(last.from, last.fromFlags) /\ Feasible(last.from.values)
  /\ CostChange(qp, last.from.values, state.values) < 0

(***************************************************************************)
(* C5 (as stated): optimize(values, duals, useWarmStart = true) on the     *)
(* pair a previous optimize returned converges after exactly one iterate   *)
(* call and returns the same values and the same duals, also when the      *)
(* returned duals are empty or a constraint is at its bound but inactive.  *)
(***************************************************************************)
C5_Original ==
  calls = 2 =>
     /\ pc \in {"call", "loop", "done"}
     /\ pc = "loop" => state.iterations = 0 \/ (state.iterations = 1 /\ state.converged)
     /\ pc = "done" => state.iterations = 1 /\ results[2] = results[1]

\* the returned pair reproduces the final working set on a warm start:
\* its duals are non-empty, or they are empty and every inequality
\* constraint is slack by at least 1e-7 at the returned values
ReproducesWorkingSet(r) ==
  \/ Cardinality(DOMAIN r.duals) > 0
  \/ \A i \in 1..NumIneq :
        /\ RLess(error(qp.inequalities[i], r.values), Zero)
        /\ ~RLess(RAbs(error(qp.inequalities[i], r.values)), Tol7)

(***************************************************************************)
(* C5 (amended): when the returned duals are non-empty, or are empty with  *)
(* every inequality constraint slack by at least 1e-7 at the returned      *)
(* values, the warm restart converges after exactly one iterate call and   *)
(* returns the same values and the same duals.                             *)
(***************************************************************************)
C5_IdempotentRestart ==
  calls = 2 /\ ReproducesWorkingSet(results[1]) =>
     /\ pc \in {"call", "loop", "done"}
     /\ pc = "loop" => state.iterations = 0 \/ (state.iterations = 1 /\ state.converged)
     /\ pc = "done" => state.iterations = 1 /\ results[2] = results[1]

\* a warm restart from a pair with an active constraint has returned
C5_Witness ==
  /\ calls = 2 /\ pc = "done" /\ Len(results) = 2
  /\ \E i \in 1..NumIneq : dualKey(i) \in DOMAIN results[1].duals
  /\ \E i \in 1..NumIneq : dualKey(i) \notin DOMAIN results[1].duals
  /\ results[2] = results[1]

(***************************************************************************)
(* The direction and ratio of the last iterate call, for C6.               *)
(***************************************************************************)
LastP ==
  VSub(solveWithCurrentWorkingSet(qp, last.from.workingSet, last.fromFlags),
       last.from.values)

InactiveBefore == {i \in 1..NumIneq : ~activeIn(last.from.workingSet, last.fromFlags, i)}

\* a.(x + alpha * p) - b for constraint i, at the step length the call returned
ErrorAfterStep(i) ==
  RSub(dotProductRow(qp.inequalities[i].a,
                     VAdd(last.from.values, VScale(last.did.alpha, LastP))),
       qp.inequalities[i].b)

Ratio(i) ==
  RDiv(RSub(qp.inequalities[i].b, dotProductRow(qp.inequalities[i].a, last.from.values)),
       dotProductRow(qp.inequalities[i].a, LastP))

\* the last iterate call ran the ratio test on a working set whose only
\* inactive constraint is i, with a.p > 0
SingleInactive(i) ==
  /\ InRun /\ last.did.branch = "step"
  /\ InactiveBefore = {i}
  /\ RLess(Zero, dotProductRow(qp.inequalities[i].a, LastP))

(***************************************************************************)
(* C6 (as stated): for a working set with a single inactive constraint     *)
(* (a, b) with a.p > 0, the step length alpha returned by computeStepSize  *)
(* satisfies a.(x + alpha*p) = b exactly.                                  *)
(***************************************************************************)
C6_Original ==
  \A i \in 1..NumIneq : SingleInactive(i) => ErrorAfterStep(i) = Zero

(***************************************************************************)
(* C6 (amended): for a working set with a single inactive constraint       *)
(* (a, b) with a.p > 0, computeStepSize returns alpha with                 *)
(* a.(x + alpha*p) = b and that constraint's index when the ratio          *)
(* (b - a.x)/(a.p) is below 1; otherwise it returns alpha = 1 and -1.      *)
(***************************************************************************)
C6_RatioOrFullStep ==
  \A i \in 1..NumIneq :
     SingleInactive(i) =>
        IF RLess(Ratio(i), One)
        THEN ErrorAfterStep(i) = Zero /\ last.did.factorIx = i - 1
        ELSE last.did.alpha = One /\ last.did.factorIx = -1

\* the ratio test bound the step on the single inactive constraint
C6_Witness ==
  \E i \in 1..NumIneq :
     /\ SingleInactive(i) /\ RLess(Ratio(i), One) /\ RLess(Zero, Ratio(i))
     /\ ErrorAfterStep(i) = Zero

(***************************************************************************)
(* The scenario of C7 and C8: one variable, cost minimum at x = 10, the    *)
(* single inequality x <= 5, cold start at x = 0.                          *)
(***************************************************************************)
Scenario ==
  /\ calls = 1 /\ ~useWarmStart
  /\ qp.n = 1 /\ qp.c = <<RInt(10)>> /\ qp.equalities = << >>
  /\ qp.inequalities = << [a |-> <<One>>, b |-> RInt(5)] >>
  /\ initialValues = <<Zero>>

(***************************************************************************)
(* C7: in the scenario optimize first takes a step that the ratio test     *)
(* blocks at x = 5 (alpha = 1/2) and that activates the constraint, then   *)
(* a KKT check that finds no leaving constraint, and returns x = 5 with    *)
(* the constraint still active.                                            *)
(***************************************************************************)
C7_ScenarioTrajectory ==
  Scenario =>
     /\ pc \in {"call", "loop", "done"}
     /\ state.iterations <= 2
     /\ pc = "loop" /\ state.iterations = 0 => ~activeIn(state.workingSet, flags, 1)
     /\ InRun /\ state.iterations = 1 =>
           /\ last.did = [branch |-> "step", alpha |-> <<1, 2>>, factorIx |-> 0]
           /\ state.values = <<RInt(5)>> /\ ~state.converged
           /\ activeIn(state.workingSet, flags, 1)
     /\ InRun /\ state.iterations = 2 =>
           /\ last.did.branch = "converged" /\ state.converged
           /\ state.values = <<RInt(5)>>
           /\ activeIn(state.workingSet, flags, 1)
     /\ pc = "done" => state.iterations = 2 /\ results[1].values = <<RInt(5)>>

\* the scenario has returned
C7_Witness == Scenario /\ pc = "done" /\ results[1].values = <<RInt(5)>>

(***************************************************************************)
(* C8 (as stated): in the scenario the multiplier returned in duals for    *)
(* the active constraint at convergence is strictly positive.              *)
(***************************************************************************)
C8_Original ==
  Scenario /\ pc = "done" => RLess(Zero, results[1].duals[dualKey(1)])

(***************************************************************************)
(* C8 (amended): in the scenario the second iterate call converges and the *)
(* multiplier returned in duals for the active constraint is strictly      *)
(* negative: the cost gradient -5 over the coefficient 1.                  *)
(***************************************************************************)
C8_ScenarioDualNegative ==
  /\ Scenario /\ InRun /\ state.iterations >= 2 =>
        /\ state.converged
        /\ RLess(state.duals[dualKey(1)], Zero)
        /\ state.duals[dualKey(1)] = RInt(-5)
  /\ Scenario /\ pc = "done" => results[1].duals = state.duals

\* the scenario has returned its multiplier
C8_Witness == Scenario /\ pc = "done" /\ DOMAIN results[1].duals = {dualKey(1)}

(***************************************************************************)
(* C9: a cold start (useWarmStart false) from a point at which some        *)
(* inequality constraint has strictly positive violation raises            *)
(* InfeasibleInitialValues before any iterate call, and returns nothing.   *)
(***************************************************************************)
C9_InfeasibleStartThrows ==
  calls = 1 /\ ~useWarmStart /\ ~Feasible(initialValues) =>
     /\ pc \in {"call", "InfeasibleInitialValues"}
     /\ state.iterations = 0 /\ last.did.branch = "none"
     /\ results = << >>

\* the failure was raised
C9_Witness ==
  /\ calls = 1 /\ ~useWarmStart /\ ~Feasible(initialValues)
  /\ pc = "InfeasibleInitialValues" /\ results = << >>

(***************************************************************************)
(* C10: in cold-start working-set construction every inequality whose      *)
(* violation v at the initial point has |v| < 1e-7, negative, zero or      *)
(* positive, is put into the working set as active, and the failure is     *)
(* raised only for a violation beyond the tolerance.                       *)
(***************************************************************************)
C10_ToleranceActivates ==
  calls = 1 /\ ColdStart =>
     /\ pc = "InfeasibleInitialValues" =>
           \E i \in 1..NumIneq :
              /\ RLess(Zero, error(qp.inequalities[i], initialValues))
              /\ ~RLess(RAbs(error(qp.inequalities[i], initialValues)), Tol7)
     /\ pc = "loop" /\ state.iterations = 0 =>
           \A i \in 1..NumIneq :
              RLess(RAbs(error(qp.inequalities[i], initialValues)), Tol7)
                 => activeIn(state.workingSet, flags, i)

(***************************************************************************)
(* C11: the working set optimize starts from has one entry per inequality  *)
(* constraint, in index order.  With useWarmStart and the constraint's     *)
(* dual key among the prior duals the entry is active; with useWarmStart,  *)
(* the key absent and the prior duals non-empty it is inactive; otherwise  *)
(* (no warm start, or empty prior duals) it is classified by its violation *)
(* at the initial point: active when within 1e-7 of the bound, inactive    *)
(* when slack by more.                                                     *)
(***************************************************************************)
InitialState == pc = "loop" /\ state.iterations = 0

C11_WarmStartWorkingSet ==
  InitialState =>
     /\ Len(state.workingSet) = NumIneq
     /\ \A i \in 1..NumIneq :
           /\ state.workingSet[i] = calls * NumIneq + i
           /\ IF useWarmStart /\ dualKey(i) \in DOMAIN initialDuals
              THEN activeIn(state.workingSet, flags, i)
              ELSE IF useWarmStart /\ DOMAIN initialDuals # {}
              THEN ~activeIn(state.workingSet, flags, i)
              ELSE /\ RLeq(error(qp.inequalities[i], initialValues), Zero)
                   /\ activeIn(state.workingSet, flags, i)
                        <=> RLess(RAbs(error(qp.inequalities[i], initialValues)), Tol7)

\* a warm start whose prior duals hold the key of one constraint and not of
\* the other, from a point where the violations would classify them the
\* other way round
C11_Witness ==
  /\ InitialState /\ useWarmStart /\ NumIneq = 2
  /\ dualKey(1) \in DOMAIN initialDuals /\ dualKey(2) \notin DOMAIN initialDuals
  /\ activeIn(state.workingSet, flags, 1) /\ ~activeIn(state.workingSet, flags, 2)
  /\ error(qp.inequalities[1], initialValues) # Zero
  /\ error(qp.inequalities[2], initialValues) = Zero

(***************************************************************************)
(* The multipliers and flags the last KKT check saw, for C12.              *)
(***************************************************************************)
KKTCheck == InRun /\ last.did.branch \in {"converged", "leave"}

ActiveBefore == {i \in 1..NumIneq : activeIn(last.from.workingSet, last.fromFlags, i)}

PositiveBefore == {i \in ActiveBefore : RLess(Zero, state.duals[dualKey(i)])}

(***************************************************************************)
(* C12: identifyLeavingConstraint returns the index of the active          *)
(* constraint with the largest strictly positive multiplier, the lowest    *)
(* index among ties; it returns -1 exactly when no active constraint has   *)
(* a strictly positive multiplier; it never returns an inactive one.       *)
(***************************************************************************)
C12_LeavingConstraint ==
  KKTCheck =>
     /\ last.did.factorIx = -1 <=> PositiveBefore = {}
     /\ last.did.factorIx # -1 =>
           LET w == last.did.factorIx + 1
           IN  /\ w \in PositiveBefore
               /\ \A j \in PositiveBefore :
                     /\ RLeq(state.duals[dualKey(j)], state.duals[dualKey(w)])
                     /\ state.duals[dualKey(j)] = state.duals[dualKey(w)] => w <= j

\* two active constraints tie on the largest positive multiplier and the
\* first of them leaves
C12_Witness ==
  /\ KKTCheck /\ last.did.factorIx = 0
  /\ PositiveBefore = {1, 2}
  /\ state.duals[dualKey(1)] = state.duals[dualKey(2)]

(***************************************************************************)
(* C13: computeStepSize returns (alpha, idx) with alpha the minimum of 1   *)
(* and the ratios (b - a.x)/(a.p) of the inactive constraints with         *)
(* a.p > 0; idx is the lowest index attaining the minimum when it is below *)
(* 1, and -1 exactly when no such ratio is below 1.  Active constraints    *)
(* and constraints with a.p <= 0 do not count.                             *)
(***************************************************************************)
RatioTest == InRun /\ last.did.branch = "step"

Blocking ==
  {i \in InactiveBefore : RLess(Zero, dotProductRow(qp.inequalities[i].a, LastP))}

BelowOne == {i \in Blocking : RLess(Ratio(i), One)}

C13_StepSize ==
  RatioTest =>
     /\ last.did.factorIx = -1 <=> BelowOne = {}
     /\ BelowOne = {} => last.did.alpha = One
     /\ BelowOne # {} =>
           LET w == last.did.factorIx + 1
           IN  /\ w \in BelowOne
               /\ last.did.alpha = Ratio(w)
               /\ \A j \in Blocking :
                     /\ RLeq(Ratio(w), Ratio(j))
                     /\ Ratio(j) = Ratio(w) => w <= j

\* two inactive constraints tie on a ratio below 1 and the first is returned
C13_Witness ==
  /\ RatioTest /\ last.did.factorIx = 0 /\ RLess(last.did.alpha, One)
  /\ 2 \in BelowOne /\ Ratio(2) = Ratio(1)

(***************************************************************************)
(* C14: optimize returns only from a state with converged = true, the      *)
(* first one the loop reaches; the pair it returns is that state's values  *)
(* and duals, and the duals are the solution of the dual graph built with  *)
(* the final working set at the final values.                              *)
(***************************************************************************)
C14_ReturnsConvergedState ==
  pc = "done" =>
     /\ state.converged /\ ~last.from.converged
     /\ last.did.branch = "converged"
     /\ results[Len(results)] = [values |-> state.values, duals |-> state.duals]
     /\ state.duals =
           DualOptimize(buildDualGraph(qp, state.workingSet, flags, state.values))

\* a warm-started call returned duals that differ from the prior duals
C14_Witness ==
  /\ pc = "done" /\ calls = 1 /\ useWarmStart
  /\ DOMAIN initialDuals # {} /\ DOMAIN state.duals # {}
  /\ results[1].duals # initialDuals
  /\ state.iterations >= 2

(***************************************************************************)
(* C15: iterate is a pure function of its input state: after iterate(s)    *)
(* returns, the active flags of the factors of s.workingSet are the same   *)
(* as before the call.                                                     *)
(***************************************************************************)
Iterated == InRun /\ last.did.branch # "none"

C15_IteratePure ==
  Iterated =>
     \A i \in 1..NumIneq :
        activeIn(last.from.workingSet, flags, i)
           = activeIn(last.from.workingSet, last.fromFlags, i)

(***************************************************************************)
(* C16: optimize never changes the problem's own inequality constraints:   *)
(* over any sequence of calls, those that raise InfeasibleInitialValues    *)
(* included, every step leaves qp and the active flags of its factors as   *)
(* they were, and the working set refers to copies only.                   *)
(***************************************************************************)
C16_BaseUntouched ==
  [][/\ qp' = qp
     /\ \A i \in 1..NumIneq : flags'[i] = flags[i]
     /\ \A i \in 1..Len(state'.workingSet) : state'.workingSet[i] > NumIneq]_vars

\* a restart raised InfeasibleInitialValues after a call that inactivated a
\* working copy, and the problem's own factors still carry their flags
C16_Witness ==
  /\ calls = 2 /\ pc = "InfeasibleInitialValues"
  /\ \E i \in 1..NumIneq : ~flags[NumIneq + i]
  /\ \A i \in 1..NumIneq : flags[i]

(***************************************************************************)
(* The point the last iterate call solved, for C17.                        *)
(***************************************************************************)
SolvedBefore == solveWithCurrentWorkingSet(qp, last.from.workingSet, last.fromFlags)

\* the solved point equals the previous values within 1e-7
Stalled ==
  \A k \in DOMAIN SolvedBefore :
     Within(RSub(SolvedBefore[k], last.from.values[k]), 10000000)

(***************************************************************************)
(* C17: iterate returns converged = true exactly when the point solved     *)
(* with the current working set equals the previous values within 1e-7     *)
(* and no active inequality has a strictly positive multiplier; the        *)
(* returned working set then has the flags of the input.  A call that      *)
(* makes primal progress returns converged = false.                        *)
(***************************************************************************)
C17_ConvergedExactly ==
  Iterated =>
     /\ state.converged <=> (Stalled /\ PositiveBefore = {})
     /\ state.converged =>
           /\ state.workingSet = last.from.workingSet
           /\ \A i \in 1..NumIneq :
                 activeIn(state.workingSet, flags, i)
                    = activeIn(last.from.workingSet, last.fromFlags, i)
     /\ last.did.branch = "step" => ~state.converged /\ ~Stalled

\* a call converged on a solved point that differs from the previous values
\* by less than the tolerance
C17_Witness ==
  /\ Iterated /\ state.converged
  /\ SolvedBefore # last.from.values
  /\ ActiveBefore # {}

(***************************************************************************)
(* Stationarity of a set of multipliers d at the point x, for C18: on      *)
(* every variable the multipliers of the equalities and of the active      *)
(* inequalities, weighted by the constraint coefficients, add up to the    *)
(* cost gradient.                                                          *)
(***************************************************************************)
RECURSIVE WeightedIneqUpTo(_, _, _, _, _)
WeightedIneqUpTo(d, ws, fl, k, i) ==
  IF i = 0 THEN Zero
  ELSE RAdd(WeightedIneqUpTo(d, ws, fl, k, i - 1),
            IF activeIn(ws, fl, i) THEN RMul(qp.inequalities[i].a[k], d[dualKey(i)])
            ELSE Zero)

RECURSIVE WeightedEqUpTo(_, _, _)
WeightedEqUpTo(d, k, j) ==
  IF j = 0 THEN Zero
  ELSE RAdd(WeightedEqUpTo(d, k, j - 1), RMul(qp.equalities[j].a[k], d[dualKeyE(j)]))

Stationary(d, ws, fl, x) ==
  /\ DOMAIN d = {dualKey(i) : i \in {j \in 1..NumIneq : activeIn(ws, fl, j)}}
                \cup {dualKeyE(j) : j \in 1..Len(qp.equalities)}
  /\ \A k \in 1..qp.n :
        RAdd(WeightedIneqUpTo(d, ws, fl, k, NumIneq),
             WeightedEqUpTo(d, k, Len(qp.equalities))) = gradient(qp, k, x)

\* the last iterate call was at a candidate KKT point and a constraint left
Leaving == InRun /\ last.did.branch = "leave"

\* what C18 says of everything but values
LeaveFrame ==
  LET w == last.did.factorIx + 1
  IN  /\ activeIn(last.from.workingSet, last.fromFlags, w)
      /\ ~activeIn(state.workingSet, flags, w)
      /\ \A i \in (1..NumIneq) \ {w} :
            activeIn(state.workingSet, flags, i)
               = activeIn(last.from.workingSet, last.fromFlags, i)
      /\ Stationary(state.duals, last.from.workingSet, last.fromFlags, SolvedBefore)
      /\ state.iterations = last.from.iterations + 1
      /\ ~state.converged

(***************************************************************************)
(* C18: when iterate is at a candidate KKT point and a leaving *)
(* constraint exists, the returned state has the leaving constraint's flag *)
(* flipped to inactive and no other flag changed, the newly solved duals,  *)
(* iterations incremented by one, converged false, and the values of the   *)
(* input state.                                                            *)
(***************************************************************************)
C18_Original ==
  Leaving => LeaveFrame /\ state.values = last.from.values

(***************************************************************************)
(* C19: when iterate makes primal progress the returned state has          *)
(* values = previous + alpha*p with (alpha, idx) the result of the ratio   *)
(* test on the previous point, the duals of the input, iterations          *)
(* incremented by one, and a working set in which constraint idx (if       *)
(* idx >= 0) is activated and no other flag changes; nothing is            *)
(* deactivated.                                                            *)
(***************************************************************************)
C19_ProgressFrame ==
  RatioTest =>
     LET w == last.did.factorIx + 1
     IN  /\ ~Stalled
         /\ last.did.factorIx = -1 <=> BelowOne = {}
         /\ last.did.alpha = IF BelowOne = {} THEN One ELSE Ratio(w)
         /\ BelowOne # {} => w \in BelowOne /\ \A j \in BelowOne : RLeq(Ratio(w), Ratio(j))
         /\ state.values = VAdd(last.from.values, VScale(last.did.alpha, LastP))
         /\ state.duals = last.from.duals
         /\ state.iterations = last.from.iterations + 1
         /\ ~state.converged
         /\ \A i \in 1..NumIneq :
               activeIn(state.workingSet, flags, i)
                  = (i = w \/ activeIn(last.from.workingSet, last.fromFlags, i))

\* a step shortened by a blocking constraint, which is activated beside one
\* that was active already; the input duals are kept
C19_Witness ==
  /\ RatioTest /\ last.did.factorIx >= 0
  /\ RLess(Zero, last.did.alpha) /\ RLess(last.did.alpha, One)
  /\ ActiveBefore # {}
  /\ DOMAIN state.duals # {} /\ state.duals = last.from.duals

(***************************************************************************)
(* Termination (C20) is checked on cold starts of problems with a          *)
(* degenerate vertex: two variables and up to MaxTight constraints drawn   *)
(* from rows that all pass through the point (5, 5).  The loop of optimize *)
(* is sequential, so an enabled iterate call or return is eventually       *)
(* taken.                                                                  *)
(***************************************************************************)
MaxTight == 3     \* at most this many constraints through the vertex

VertexScale == <<5, 2>>

VertexRows ==
  {[a |-> <<RInt(r[1][1]), RInt(r[1][2])>>, b |-> G(VertexScale, r[2])] :
     r \in {<<<<1, 0>>, 2>>, <<<<0, 1>>, 2>>, <<<<1, 1>>, 4>>, <<<<1, -1>>, 0>>}}

VertexProblems ==
  {[n |-> 2, h |-> <<One, One>>, c |-> <<G(VertexScale, cg[1]), G(VertexScale, cg[2])>>,
    equalities |-> << >>, inequalities |-> ineqs] :
      cg \in [1..2 -> {0, 1, 3, 4}], ineqs \in SeqsUpTo(VertexRows, MaxTight)}

VertexStarts ==
  {<<G(VertexScale, g[1]), G(VertexScale, g[2])>> : g \in [1..2 -> {0, 1, 2}]}

\* before the solver is constructed: no constraints, nothing solved
VertexInit ==
  /\ qp = [n |-> 2, h |-> <<One, One>>, c |-> <<Zero, Zero>>,
           equalities |-> << >>, inequalities |-> << >>]
  /\ initialValues = <<Zero, Zero>>
  /\ useWarmStart = FALSE
  /\ initialDuals = << >>
  /\ pc = "new"
  /\ state = [values |-> initialValues, duals |-> initialDuals, workingSet |-> << >>,
              converged |-> FALSE, iterations |-> 0]
  /\ flags = << >>
  /\ last = [did |-> NoStep, from |-> state, fromFlags |-> flags]
  /\ results = << >>
  /\ calls = 1

\* the solver is constructed on a problem and the caller picks a cold start
Construct ==
  /\ pc = "new"
  /\ qp' \in VertexProblems
  /\ initialValues' \in VertexStarts
  /\ state' = [state EXCEPT !.values = initialValues']
  /\ flags' = [i \in 1..Len(qp'.inequalities) |-> TRUE]
  /\ last' = [did |-> NoStep, from |-> state', fromFlags |-> flags']
  /\ pc' = "call"
  /\ UNCHANGED <<useWarmStart, initialDuals, results, calls>>

TerminationNext == Construct \/ Next

\* Iterate is enabled: each of its steps changes state.iterations or pc, so
\* this is ENABLED <<Iterate>>_vars
IterateDue == pc = "loop" /\ ~state.converged /\ state.iterations < MaxIter

\* weak fairness of the loop: a return that is due is taken, and an iterate
\* call that is due is taken (Iterate cannot stay enabled forever; the two
\* forms of weak fairness agree because no behaviour takes infinitely many
\* Iterate steps)
TerminationSpec ==
  /\ VertexInit /\ [][TerminationNext]_vars
  /\ WF_vars(Return)
  /\ []<>(~IterateDue)

\* the loop of a cold-start call is running
ColdLoop == pc = "loop" /\ calls = 1

InactiveSatisfied ==
  \A i \in InactiveBefore : RLeq(error(qp.inequalities[i], last.from.values), Zero)

\* the blocking constraints that are tight at xk
TightBlocking == {i \in Blocking : error(qp.inequalities[i], last.from.values) = Zero}

(***************************************************************************)
(* C21: whenever the point xk passed to computeStepSize satisfies every    *)
(* inactive inequality constraint, the returned alpha lies in [0, 1]; a    *)
(* blocking constraint that is already tight at xk yields alpha = 0, so    *)
(* iterate activates a tight blocking constraint and leaves values         *)
(* unchanged.                                                              *)
(***************************************************************************)
C21_StepLengthInUnitInterval ==
  RatioTest /\ InactiveSatisfied =>
     /\ RLeq(Zero, last.did.alpha) /\ RLeq(last.did.alpha, One)
     /\ TightBlocking # {} =>
           /\ last.did.alpha = Zero
           /\ last.did.factorIx + 1 \in TightBlocking
           /\ activeIn(state.workingSet, flags, last.did.factorIx + 1)
           /\ state.values = last.from.values

\* a step of length zero onto a constraint that was tight and inactive, in a
\* direction that is not zero
C21_Witness ==
  /\ RatioTest /\ InactiveSatisfied /\ TightBlocking # {}
  /\ last.did.alpha = Zero /\ state.values = last.from.values
  /\ \E k \in DOMAIN LastP : LastP[k] # Zero

(***************************************************************************)
(* C22: with useWarmStart true and non-empty prior duals the working set   *)
(* is built from the dual keys alone and InfeasibleInitialValues is never  *)
(* raised: optimize starts iterating even from an initial point that       *)
(* violates an inequality constraint or at which an activated constraint   *)
(* does not hold with equality.                                            *)
(***************************************************************************)
WarmWithDuals == useWarmStart /\ DOMAIN initialDuals # {}

C22_WarmStartNeverThrows ==
  WarmWithDuals =>
     /\ pc # "InfeasibleInitialValues"
     /\ InitialState =>
           \A i \in 1..NumIneq :
              activeIn(state.workingSet, flags, i) <=> dualKey(i) \in DOMAIN initialDuals

\* a warm start iterated from a point that violates one constraint and at
\* which an activated constraint does not hold with equality
C22_Witness ==
  /\ WarmWithDuals /\ calls = 1 /\ pc = "loop" /\ state.iterations = 1
  /\ \E i \in 1..NumIneq : RLess(Zero, error(qp.inequalities[i], initialValues))
  /\ \E i \in 1..NumIneq :
        /\ dualKey(i) \in DOMAIN initialDuals
        /\ error(qp.inequalities[i], initialValues) # Zero

=============================================================================
